---- MODULE Spec2Model ----
(***************************************************************************)
(* Model of src/index.js: a two-stage LangGraph workflow (researcher, then *)
(* writer) over a shared state of four channels, run once by main().       *)
(*                                                                         *)
(* Texts are TLA+ strings; "" is the empty (falsy) JavaScript string.      *)
(* A message is a record [role, content].  A stage's return value is a     *)
(* function from the field names it holds to their values; the engine      *)
(* writes every field the return value holds through that field's reducer. *)
(***************************************************************************)
EXTENDS Integers, Sequences, FiniteSets, TLC

\* ---------------------------------------------------------------- bounds
\* Number of distinct non-empty texts (generated texts, message contents).
NumTexts == 2
\* Longest messages list of an initial state.
MaxInitLen == 2
\* Most stage executions the engine performs in one run before it gives up.
MaxSteps == 3

VARIABLES
  pc,          \* position of main(): "check_key", "invoke", "awaiting", "done", "exited",
               \* or "reduce"/"reduced" when a single merge is examined on its own
  apiKey,      \* whether process.env.OPENAI_API_KEY is set
  input,       \* the initial state handed to app.invoke
  node,        \* the engine's position: "idle", a stage name, "END" or "aborted"
  state,       \* the channels' current values
  inflight,    \* the stages suspended at their await of llm.invoke
  snapshot,    \* the state object the stage in flight (or last run) received
  prompt,      \* <<kind, text>> of the last prompt sent to the generation capability
  update,      \* the value the last completed stage returned
  executed,    \* the stages started so far, in order
  responses,   \* the texts the generation capability returned so far, in order
  genCalls,    \* number of llm.invoke calls issued
  failedAt,    \* the stage whose generation call failed, or "none"
  routes,      \* the values routeAgent returned so far, in order
  result,      \* <<>> or <<s>>, s the state app.invoke resolved with
  summary,     \* <<>> or <<t>>, t the final summary main printed
  remediation, \* whether main printed the missing-key instructions
  exitCode     \* "none" while running, 0 after a normal end, 1 after process.exit(1)

vars == <<pc, apiKey, input, node, state, inflight, snapshot, prompt, update,
          executed, responses, genCalls, failedAt, routes, result, summary,
          remediation, exitCode>>

\* ------------------------------------------------------------ data model
Fields == {"messages", "currentAgent", "researchData", "finalOutput"}

NonEmptyTexts == {"t" \o ToString(i) : i \in 1..NumTexts}
Texts == {""} \cup NonEmptyTexts

HumanMessage(c) == [role |-> "human", content |-> c]
AIMessage(c) == [role |-> "ai", content |-> c]

DefaultTopic == "AI and Machine Learning"

\* currentAgent values an initial state may carry ("" is falsy, "other" is
\* any tag the router does not know).
AgentTags == {"researcher", "writer", "complete", "other", ""}

SeqsUpTo(S, n) == UNION {[1..k -> S] : k \in 0..n}

\* The caller-supplied initial states; main()'s own is the one with a single
\* human message, currentAgent "researcher" and both texts empty.
InitialStates ==
  [messages : SeqsUpTo({HumanMessage(c) : c \in Texts}, MaxInitLen),
   currentAgent : AgentTags,
   researchData : Texts,
   finalOutput : Texts]

\* ------------------------------------------------------------- reducers
\* Faulty variant: the list is replaced by the newest incoming message.
AppendKeepsNewest(left, right) ==
  IF right = << >> THEN left ELSE <<right[Len(right)]>>

\* (left, right) => (left || []).concat(right || [])
AppendReducer(left, right) == left \o right

\* Faulty variants of the overwrite reducer: one that joins old and new, one
\* that lets an empty incoming value win, one that never takes the new value.
OverwriteConcatenates(left, right) == left \o right
OverwriteAlways(left, right) == right
OverwriteKeepsOld(left, right) == left

\* (left, right) => right || left      ("" is falsy)
OverwriteReducer(left, right) == IF right # "" THEN right ELSE left

Reducer(f, left, right) ==
  IF f = "messages" THEN AppendReducer(left, right) ELSE OverwriteReducer(left, right)

\* default: () => ... of each channel
DefaultState ==
  [messages |-> << >>, currentAgent |-> "researcher",
   researchData |-> "", finalOutput |-> ""]

\* The engine's merge: every field the update holds goes through its reducer.
Merge(st, upd) ==
  [f \in Fields |-> IF f \in DOMAIN upd THEN Reducer(f, st[f], upd[f]) ELSE st[f]]

\* --------------------------------------------------------------- stages
\* Faulty variant: the topic is read from the first message.
TopicFromFirst(st) ==
  IF Len(st.messages) > 0 /\ st.messages[1].content # ""
  THEN st.messages[1].content
  ELSE DefaultTopic

\* state.messages[state.messages.length - 1]?.content || "AI and Machine Learning"
Topic(st) ==
  IF Len(st.messages) > 0 /\ st.messages[Len(st.messages)].content # ""
  THEN st.messages[Len(st.messages)].content
  ELSE DefaultTopic

\* Faulty variant: the researcher returns its response alone as messages.
ResearcherReturnsResponseOnly(st, t) ==
  [f \in Fields |->
     CASE f = "researchData" -> t
       [] f = "currentAgent" -> "writer"
       [] f = "messages" -> <<AIMessage(t)>>
       [] OTHER -> st[f]]

\* Faulty variant: the researcher names itself as the next agent.
ResearcherNamesItself(st, t) ==
  [f \in Fields |->
     CASE f = "researchData" -> t
       [] f = "currentAgent" -> "researcher"
       [] f = "messages" -> st.messages \o <<AIMessage(t)>>
       [] OTHER -> st[f]]

\* Faulty variant: the researcher does not hand control to the writer.
ResearcherKeepsAgent(st, t) ==
  [f \in Fields |->
     CASE f = "researchData" -> t
       [] f = "messages" -> st.messages \o <<AIMessage(t)>>
       [] OTHER -> st[f]]

\* return { ...state, researchData, currentAgent: "writer", messages: [...] }
ResearcherUpdate(st, t) ==
  [f \in Fields |->
     CASE f = "researchData" -> t
       [] f = "currentAgent" -> "writer"
       [] f = "messages" -> st.messages \o <<AIMessage(t)>>
       [] OTHER -> st[f]]

\* return { ...state, finalOutput, currentAgent: "complete", messages: [...] }
WriterUpdate(st, t) ==
  [f \in Fields |->
     CASE f = "finalOutput" -> t
       [] f = "currentAgent" -> "complete"
       [] f = "messages" -> st.messages \o <<AIMessage(t)>>
       [] OTHER -> st[f]]

\* Faulty variant: the stage pushes its response onto the list it received.
ReceivedAfterPush(st, t) ==
  [st EXCEPT !.messages = Append(@, AIMessage(t))]

\* The state object a stage received, as the stage leaves it on return: the
\* stages build new objects ({ ...state }, [...state.messages, response]) and
\* assign to none of its fields.
ReceivedAfterStage(st, t) == st

\* ---------------------------------------------------------------- router
\* Faulty variant: the router ends the run when the writer is due.
routeAgentEndsEarly(st) ==
  IF st.currentAgent = "researcher" THEN "researcher" ELSE "end"

routeAgent(st) ==
  IF st.currentAgent = "researcher" THEN "researcher"
  ELSE IF st.currentAgent = "writer" THEN "writer"
  ELSE "end"

\* ----------------------------------------------------------------- graph
\* Faulty variant: the entry edge leads to the writer.
EntryPointWriter == "writer"
\* addEdge(START, "researcher")
EntryPoint == "researcher"
\* addConditionalEdges("researcher", routeAgent, { writer: "writer", end: END })
PathMap == [writer |-> "writer", end |-> "END"]
\* Faulty variant: the writer's edge leads back to the researcher.
WriterEdgeLoops == "researcher"
\* addEdge("writer", END)
WriterEdge == "END"

\* Where the engine goes after stage n, given the merged state; "aborted"
\* when the router names a destination the path map does not hold.
NextNode(n, st) ==
  IF n = "researcher"
  THEN IF routeAgent(st) \in DOMAIN PathMap THEN PathMap[routeAgent(st)] ELSE "aborted"
  ELSE WriterEdge

\* Faulty variant: the credential check is skipped.
KeyCheckSkipped(key) == FALSE
\* if (!process.env.OPENAI_API_KEY)
KeyMissing(key) == ~key

\* Faulty variant: a stage is handed the caller's input, not the merged state.
StageInputStale(st, inp) == inp
\* The state object the engine hands to a stage: the merged channel values.
StageInput(st, inp) == st

\* Faulty variant: after a failure the run is started again from the entry.
OnFailureRetries == [node |-> "researcher", pc |-> "awaiting", exitCode |-> "none"]
\* Faulty variant: a failure is swallowed and the run goes on to the writer.
OnFailureSwallowed == [node |-> "writer", pc |-> "awaiting", exitCode |-> "none"]
\* What an unrecovered failure inside a run leads to: the engine stops and
\* main()'s catch block calls process.exit(1).
OnFailure == [node |-> "aborted", pc |-> "exited", exitCode |-> 1]

\* ------------------------------------------------------------------ Init
Init ==
  /\ pc = "check_key"
  /\ apiKey \in BOOLEAN
  /\ input \in InitialStates
  /\ node = "idle"
  /\ state = DefaultState
  /\ inflight = {}
  /\ snapshot = DefaultState
  /\ prompt = << >>
  /\ update = << >>
  /\ executed = << >>
  /\ responses = << >>
  /\ genCalls = 0
  /\ failedAt = "none"
  /\ routes = << >>
  /\ result = << >>
  /\ summary = << >>
  /\ remediation = FALSE
  /\ exitCode = "none"

\* --------------------------------------------------------------- actions
\* main(), lines 128-141: the credential check.
MainCheckKey ==
  /\ pc = "check_key"
  /\ IF KeyMissing(apiKey)
     THEN /\ remediation' = TRUE
          /\ pc' = "exited"
          /\ exitCode' = 1
     ELSE /\ pc' = "invoke"
          /\ UNCHANGED <<remediation, exitCode>>
  /\ UNCHANGED <<apiKey, input, node, state, inflight, snapshot, prompt, update,
                 executed, responses, genCalls, failedAt, routes, result, summary>>

\* main(), lines 143-159: buildGraph() and app.invoke(initialState); the
\* input is written into the channels through the reducers, starting from
\* the defaults, and the engine moves to the entry point.
MainInvoke ==
  /\ pc = "invoke"
  /\ pc' = "awaiting"
  /\ state' = Merge(DefaultState, input)
  /\ node' = EntryPoint
  /\ UNCHANGED <<apiKey, input, inflight, snapshot, prompt, update, executed,
                 responses, genCalls, failedAt, routes, result, summary,
                 remediation, exitCode>>

\* A stage starts: it receives the state, builds its prompt and suspends at
\* await llm.invoke(...).
StageCall(n, p) ==
  /\ pc = "awaiting"
  /\ node = n
  /\ inflight = {}
  /\ Len(executed) < MaxSteps
  /\ snapshot' = StageInput(state, input)
  /\ prompt' = p
  /\ inflight' = {n}
  /\ executed' = Append(executed, n)
  /\ genCalls' = genCalls + 1
  /\ UNCHANGED <<pc, apiKey, input, node, state, update, responses, failedAt,
                 routes, result, summary, remediation, exitCode>>

\* researcherAgent, lines 23-31.
ResearcherCall == StageCall("researcher", <<"research", Topic(StageInput(state, input))>>)

\* writerAgent, lines 46-56.
WriterCall == StageCall("writer", <<"write", StageInput(state, input).researchData>>)

\* The generation call of stage n returns text t: the stage returns upd, the
\* engine merges it and follows the stage's outgoing edge.
StageReturn(n, t, upd) ==
  LET merged == Merge(state, upd)
      next == NextNode(n, merged)
  IN /\ pc = "awaiting"
     /\ inflight = {n}
     /\ inflight' = {}
     /\ responses' = Append(responses, t)
     /\ update' = upd
     /\ state' = merged
     /\ snapshot' = ReceivedAfterStage(snapshot, t)
     /\ routes' = IF n = "researcher" THEN Append(routes, routeAgent(merged)) ELSE routes
     /\ IF next = "aborted"
        THEN /\ node' = OnFailure.node
             /\ pc' = OnFailure.pc
             /\ exitCode' = OnFailure.exitCode
             /\ result' = result
        ELSE /\ node' = next
             /\ result' = IF next = "END" THEN <<merged>> ELSE result
             /\ UNCHANGED <<pc, exitCode>>
     /\ UNCHANGED <<apiKey, input, prompt, executed, genCalls,
                    failedAt, summary, remediation>>

\* researcherAgent, lines 31-40, then the conditional edge.
ResearcherReturn == \E t \in Texts : StageReturn("researcher", t, ResearcherUpdate(snapshot, t))

\* writerAgent, lines 56-65, then the fixed edge to END.
WriterReturn == \E t \in Texts : StageReturn("writer", t, WriterUpdate(snapshot, t))

\* The generation call of stage n fails: nothing catches it before main().
StageFail(n) ==
  /\ pc = "awaiting"
  /\ inflight = {n}
  /\ inflight' = {}
  /\ failedAt' = n
  /\ node' = OnFailure.node
  /\ pc' = OnFailure.pc
  /\ exitCode' = OnFailure.exitCode
  /\ UNCHANGED <<apiKey, input, state, snapshot, prompt, update, executed,
                 responses, genCalls, routes, result, summary, remediation>>

ResearcherFail == StageFail("researcher")
WriterFail == StageFail("writer")

\* main(), lines 161-166: app.invoke resolved; print the final summary.
MainPrint ==
  /\ pc = "awaiting"
  /\ node = "END"
  /\ result # << >>
  /\ summary' = <<result[1].finalOutput>>
  /\ pc' = "done"
  /\ exitCode' = 0
  /\ UNCHANGED <<apiKey, input, node, state, inflight, snapshot, prompt, update,
                 executed, responses, genCalls, failedAt, routes, result, remediation>>

Next ==
  \/ MainCheckKey
  \/ MainInvoke
  \/ ResearcherCall
  \/ ResearcherReturn
  \/ ResearcherFail
  \/ WriterCall
  \/ WriterReturn
  \/ WriterFail
  \/ MainPrint

Spec == Init /\ [][Next]_vars

\* The event loop runs every continuation that is ready, and a generation call
\* that was issued settles (it returns a text or fails).
FairSpec == Spec /\ WF_vars(Next)

\* ------------------------------------------------- one merge on its own
\* The reducers as a pure function: a prior state and a partial update are
\* drawn from bounded sets and the engine's merge is applied once.
ReduceStates ==
  [messages : SeqsUpTo({HumanMessage(c) : c \in NonEmptyTexts}, MaxInitLen),
   currentAgent : {"researcher", "complete"},
   researchData : Texts,
   finalOutput : Texts]

FullUpdates ==
  [messages : SeqsUpTo({AIMessage(c) : c \in Texts}, 1),
   currentAgent : {"", "writer", "complete"},
   researchData : Texts,
   finalOutput : Texts]

\* Every update holding any subset of the fields.
PartialUpdates ==
  {[f \in D |-> u[f]] : u \in FullUpdates, D \in SUBSET Fields}

InitReduce ==
  /\ pc = "reduce"
  /\ state \in ReduceStates
  /\ snapshot = state
  /\ update \in PartialUpdates
  /\ apiKey = TRUE
  /\ input = state
  /\ node = "idle"
  /\ inflight = {}
  /\ prompt = << >>
  /\ executed = << >>
  /\ responses = << >>
  /\ genCalls = 0
  /\ failedAt = "none"
  /\ routes = << >>
  /\ result = << >>
  /\ summary = << >>
  /\ remediation = FALSE
  /\ exitCode = "none"

\* The engine applies the channels' reducers to one update.
ApplyUpdate ==
  /\ pc = "reduce"
  /\ state' = Merge(state, update)
  /\ pc' = "reduced"
  /\ UNCHANGED <<apiKey, input, node, inflight, snapshot, prompt, update,
                 executed, responses, genCalls, failedAt, routes, result,
                 summary, remediation, exitCode>>

NextReduce == ApplyUpdate

SpecReduce == InitReduce /\ [][NextReduce]_vars

\* ------------------------------------------------ the router on its own
\* The router as a pure function: a state is drawn from the bounded set and
\* routeAgent is applied to it once.
InitRoute ==
  /\ pc = "route"
  /\ state \in InitialStates
  /\ snapshot = state
  /\ input = state
  /\ update = << >>
  /\ apiKey = TRUE
  /\ node = "idle"
  /\ inflight = {}
  /\ prompt = << >>
  /\ executed = << >>
  /\ responses = << >>
  /\ genCalls = 0
  /\ failedAt = "none"
  /\ routes = << >>
  /\ result = << >>
  /\ summary = << >>
  /\ remediation = FALSE
  /\ exitCode = "none"

\* routeAgent(state) is called and its return value recorded.
ApplyRoute ==
  /\ pc = "route"
  /\ routes' = Append(routes, routeAgent(state))
  /\ pc' = "routed"
  /\ UNCHANGED <<apiKey, input, node, state, inflight, snapshot, prompt, update,
                 executed, responses, genCalls, failedAt, result, summary,
                 remediation, exitCode>>

NextRoute == ApplyRoute

SpecRoute == InitRoute /\ [][NextRoute]_vars

\* ================================================================ claims
IsPrefix(a, b) == Len(a) <= Len(b) /\ \A i \in 1..Len(a) : a[i] = b[i]

Terminated == pc \in {"done", "exited"}
StageOrder == <<"researcher", "writer">>

\* C1: from every initial state a run terminates (END, or an abort) after at
\* most two stage executions: the researcher stage, then the writer stage.
C1_TerminatesWithinTwoStages ==
  /\ [](IsPrefix(executed, StageOrder) /\ genCalls <= 2)
  /\ <>Terminated

C1_Witness ==
  /\ node = "END"
  /\ executed = StageOrder
  /\ input.currentAgent = "complete"
  /\ input.researchData # ""
  /\ Len(input.messages) = 0

\* C2: when a run ends, messages is as long as the initial messages plus one
\* message per executed stage.
C2_OneMessagePerStage ==
  node = "END" => Len(state.messages) = Len(input.messages) + Len(executed)

C4_FailureAborts ==
  failedAt # "none" =>
    /\ executed # << >>
    /\ executed[Len(executed)] = failedAt
    /\ (failedAt = "researcher" => executed = <<"researcher">>)
    /\ IsPrefix(executed, StageOrder)
    /\ genCalls = Len(executed)
    /\ Len(responses) = Len(executed) - 1
    /\ inflight = {}
    /\ node = "aborted"
    /\ result = << >>
    /\ summary = << >>
    /\ pc = "exited"
    /\ exitCode = 1
    /\ ~ENABLED Next

C4_Witness ==
  /\ failedAt = "researcher"
  /\ executed = <<"researcher">>
  /\ pc = "exited"
  /\ exitCode = 1

\* C5: with the credential absent, main prints the remediation text and exits
\* non-zero before the graph is built: no stage runs, no generation call is made.
C5_MissingKeyRunsNothing ==
  ~apiKey =>
    /\ pc \in {"check_key", "exited"}
    /\ (pc = "exited" => remediation /\ exitCode = 1)
    /\ node = "idle"
    /\ state = DefaultState
    /\ executed = << >>
    /\ inflight = {}
    /\ genCalls = 0
    /\ summary = << >>

C5_Witness ==
  /\ ~apiKey
  /\ pc = "exited"
  /\ remediation
  /\ exitCode = 1
  /\ genCalls = 0

\* The stages' updates merged so far: one per text the capability returned.
ResearcherMerged == Len(responses) >= 1
WriterMerged == Len(responses) >= 2

\* C6: once the researcher's update is merged currentAgent is "writer"; once
\* the writer's update is merged it is "complete" and the engine has halted;
\* the returned state has currentAgent = "complete" whatever the initial tag.
C6_AgentTagSequence ==
  /\ (ResearcherMerged /\ ~WriterMerged) => state.currentAgent = "writer"
  /\ WriterMerged =>
       /\ state.currentAgent = "complete"
       /\ node = "END"
       /\ inflight = {}
       /\ ~ENABLED (ResearcherCall \/ WriterCall)
  /\ result # << >> => result[1].currentAgent = "complete"

C6_Witness ==
  /\ result # << >>
  /\ input.currentAgent = "other"
  /\ result[1].currentAgent = "complete"
  /\ pc = "done"

StartsEmpty == input.researchData = "" /\ input.finalOutput = ""

\* C7 (as stated): starting with researchData = "" and finalOutput = "",
\* researchData is non-empty once the researcher's update is merged and
\* finalOutput is non-empty once the writer's is, whatever text was generated.
C7_NonEmptyForEveryText ==
  StartsEmpty =>
    /\ (ResearcherMerged => state.researchData # "")
    /\ (WriterMerged => state.finalOutput # "")

\* C7 (amended): starting with researchData = "" and finalOutput = "",
\* researchData is non-empty once the researcher's update is merged if the
\* text the researcher generated is non-empty, and finalOutput is non-empty
\* once the writer's is merged if the writer's text is non-empty; an empty
\* generated text leaves the field empty.
C7_NonEmptyForNonEmptyText ==
  StartsEmpty =>
    /\ (ResearcherMerged => (state.researchData # "" <=> responses[1] # ""))
    /\ (WriterMerged => (state.finalOutput # "" <=> responses[2] # ""))

C7_Witness ==
  /\ StartsEmpty
  /\ WriterMerged
  /\ responses[1] # ""
  /\ responses[2] # ""
  /\ state.researchData # ""
  /\ state.finalOutput # ""

TextFields == {"researchData", "finalOutput"}

\* C8: researchData and finalOutput are overwritten, never concatenated: once
\* a stage's update is merged, each text field for which the update holds a
\* non-empty value equals exactly that value, whatever the field held before;
\* so the field equals the stage's generated text when that is non-empty.
C8_OverwriteNotConcatenate ==
  /\ ResearcherMerged =>
       \A f \in TextFields : update[f] # "" => state[f] = update[f]
  /\ (ResearcherMerged /\ responses[1] # "") => state.researchData = responses[1]
  /\ (WriterMerged /\ responses[2] # "") => state.finalOutput = responses[2]

C8_Witness ==
  /\ WriterMerged
  /\ input.researchData # ""
  /\ input.finalOutput # ""
  /\ responses[1] # "" /\ responses[1] # input.researchData
  /\ responses[2] # "" /\ responses[2] # input.finalOutput
  /\ state.researchData = responses[1]
  /\ state.finalOutput = responses[2]

\* An update with no field, or whose every field is empty.
EmptyUpdate(u) ==
  \A f \in DOMAIN u : u[f] = (IF f = "messages" THEN << >> ELSE "")

\* C9: merging an empty partial update (no field present, or every present
\* field empty) into any state leaves all four fields unchanged.
C9_EmptyUpdateChangesNothing ==
  (pc = "reduced" /\ EmptyUpdate(update)) => state = snapshot

C9_Witness ==
  /\ pc = "reduced"
  /\ EmptyUpdate(update)
  /\ DOMAIN update = Fields
  /\ Len(snapshot.messages) > 0
  /\ snapshot.researchData # ""
  /\ snapshot.finalOutput # ""
  /\ state = snapshot

\* C10: the researcher's merged output is fully applied before the writer
\* begins: the state the writer receives is the merged state, its
\* researchData is the researcher's text when that is non-empty, its
\* currentAgent is "writer", and its messages hold the researcher's response.
C10_WriterSeesMergedState ==
  "writer" \in inflight =>
    /\ ResearcherMerged
    /\ snapshot = state
    /\ snapshot = Merge(Merge(DefaultState, input), update)
    /\ (responses[1] # "" => snapshot.researchData = responses[1])
    /\ snapshot.currentAgent = "writer"
    /\ \E i \in 1..Len(snapshot.messages) : snapshot.messages[i] = AIMessage(responses[1])
    /\ prompt = <<"write", snapshot.researchData>>

C10_Witness ==
  /\ "writer" \in inflight
  /\ input.researchData # ""
  /\ responses[1] # ""
  /\ responses[1] # input.researchData
  /\ snapshot.researchData = responses[1]
  /\ input.currentAgent = "complete"

\* C11: stages run strictly one at a time: never two in flight, also while a
\* stage is suspended at its generation call; the stages started form a
\* prefix of <<researcher, writer>>, so the writer never starts before the
\* researcher has completed and no stage runs twice.
C11_OneStageAtATime ==
  /\ Cardinality(inflight) <= 1
  /\ IsPrefix(executed, StageOrder)
  /\ inflight # {} => /\ executed # << >>
                      /\ inflight = {executed[Len(executed)]}
                      /\ Len(responses) = Len(executed) - 1
                      /\ ~ENABLED (ResearcherCall \/ WriterCall)
  /\ "writer" \in inflight => (ResearcherMerged /\ "researcher" \notin inflight)
  /\ \A i, j \in 1..Len(executed) : executed[i] = executed[j] => i = j

C11_Witness ==
  /\ inflight = {"writer"}
  /\ executed = StageOrder
  /\ Len(responses) = 1
  /\ node = "writer"

StageEnded == inflight # {} /\ inflight' = {}
StageReturned == StageEnded /\ responses' # responses

\* C12: a stage never mutates the state it receives: the state object handed
\* to it is the same when the stage returns or fails; what a stage returns
\* holds a subset of the state's fields; and the shared state changes only
\* when the engine applies the reducers (to a stage's return value, or to the
\* caller's input at the start of the run).
C12_StagesDoNotMutate ==
  [][/\ StageEnded => snapshot' = snapshot
     /\ inflight # {} => state = snapshot
     /\ StageReturned => /\ DOMAIN update' \subseteq Fields
                         /\ state' = Merge(state, update')
     /\ state' # state =>
          \/ StageReturned
          \/ pc = "invoke" /\ state' = Merge(DefaultState, input)]_vars

C12_Witness ==
  /\ ResearcherMerged
  /\ ~WriterMerged
  /\ inflight = {}
  /\ snapshot = Merge(DefaultState, input)
  /\ Len(snapshot.messages) > 0
  /\ state # snapshot
  /\ DOMAIN update \subseteq Fields

\* C13: messages is append-only across a run: the messages of every earlier
\* state of the run are a prefix of the current messages (nothing is
\* removed, replaced or reordered) and the length never decreases.
C13_MessagesAppendOnly ==
  [][/\ IsPrefix(state.messages, state'.messages)
     /\ Len(state'.messages) >= Len(state.messages)
     /\ node' # "idle" =>
          /\ IsPrefix(input.messages, state'.messages)
          /\ IsPrefix(snapshot'.messages, state'.messages)]_vars

C13_Witness ==
  /\ WriterMerged
  /\ Len(input.messages) > 0
  /\ IsPrefix(input.messages, state.messages)
  /\ IsPrefix(snapshot.messages, state.messages)
  /\ Len(state.messages) > Len(snapshot.messages)
  /\ Len(snapshot.messages) > Len(input.messages)

\* C14: the router is a pure function of currentAgent: it returns
\* "researcher" for "researcher", "writer" for "writer" and "end" for every
\* other value; states that agree on currentAgent get the same answer
\* whatever their other fields hold, and the state is left as it was.
C14_RouterByCurrentAgent ==
  pc = "routed" =>
    /\ routes = <<CASE state.currentAgent = "researcher" -> "researcher"
                    [] state.currentAgent = "writer" -> "writer"
                    [] OTHER -> "end">>
    /\ \A s \in InitialStates :
         s.currentAgent = state.currentAgent => routeAgent(s) = routes[1]
    /\ state = snapshot

C14_Witness ==
  /\ pc = "routed"
  /\ state.currentAgent = "writer"
  /\ routes = <<"writer">>
  /\ state.researchData # ""
  /\ Len(state.messages) > 0

RouterConsulted == routes' # routes

\* C15: whenever the router is consulted, the researcher's merged update has
\* already set currentAgent to "writer", for every initial state; so the
\* router never takes its "researcher" branch and never returns a name the
\* conditional-edge mapping {writer, end} lacks (no run aborts on routing).
C15_RouterSeesWriter ==
  [][/\ RouterConsulted =>
          /\ inflight = {"researcher"}
          /\ update'.currentAgent = "writer"
          /\ state'.currentAgent = "writer"
          /\ routes' = Append(routes, routeAgent(state'))
          /\ routes'[Len(routes')] # "researcher"
          /\ routes'[Len(routes')] \in DOMAIN PathMap
     /\ node' = "aborted" => failedAt' # "none"]_vars

C15_Witness ==
  /\ routes = <<"writer">>
  /\ input.currentAgent = "researcher"
  /\ state.currentAgent = "writer"
  /\ node = "writer"

\* C16 (as stated): in no run does the router take its "researcher" branch
\* or its "writer" branch.
C16_NeitherBranchTaken ==
  \A i \in 1..Len(routes) : routes[i] \notin {"researcher", "writer"}

\* C16 (amended): in no run does the router take its "researcher" branch,
\* nor its "end" branch; it is consulted at most once per run, after the
\* researcher stage, and takes its "writer" branch whenever it is consulted.
C16_OnlyWriterBranchTaken ==
  /\ Len(routes) <= 1
  /\ \A i \in 1..Len(routes) : routes[i] = "writer"
  /\ Len(routes) = (IF ResearcherMerged THEN 1 ELSE 0)

C16_Witness ==
  /\ routes = <<"writer">>
  /\ input.currentAgent = "complete"
  /\ pc = "done"

InFlightCount == Cardinality(inflight)
FailedCount == IF failedAt = "none" THEN 0 ELSE 1

\* C17: there are no retries: every stage execution issues exactly one
\* generation call, a failed call is never issued again and a failed stage
\* never runs again; a run makes at most 2 generation calls and none after
\* the first failure.
C17_NoRetries ==
  [][/\ genCalls = Len(executed)
     /\ genCalls = Len(responses) + InFlightCount + FailedCount
     /\ genCalls <= 2
     /\ failedAt # "none" =>
          /\ genCalls' = genCalls
          /\ executed' = executed
          /\ failedAt' = failedAt
          /\ inflight' = {}
     /\ genCalls' # genCalls =>
          /\ genCalls' = genCalls + 1
          /\ Len(executed') = Len(executed) + 1
          /\ executed'[Len(executed')] \notin {executed[i] : i \in 1..Len(executed)}]_vars

C17_Witness ==
  /\ failedAt = "writer"
  /\ genCalls = 2
  /\ executed = StageOrder
  /\ Len(responses) = 1
  /\ pc = "exited"

\* C18: the researcher takes the content of the last message of the state
\* as its topic and falls back to the default topic when there is no message
\* or the last message's content is empty; in those cases too the stage
\* starts and issues its generation call.
C18_TopicFromLastMessage ==
  /\ "researcher" \in inflight =>
       /\ snapshot.messages = input.messages
       /\ LET n == Len(input.messages) IN
            prompt = <<"research",
                       IF n = 0 THEN DefaultTopic
                       ELSE IF input.messages[n].content = "" THEN DefaultTopic
                       ELSE input.messages[n].content>>
  /\ (pc = "awaiting" /\ node = "researcher" /\ inflight = {}) => ENABLED ResearcherCall

C18_Witness ==
  /\ "researcher" \in inflight
  /\ Len(input.messages) = 2
  /\ input.messages[1].content # ""
  /\ input.messages[2].content # ""
  /\ input.messages[1].content # input.messages[2].content
  /\ prompt = <<"research", input.messages[2].content>>

Occurrences(m, seq) == Cardinality({i \in 1..Len(seq) : seq[i] = m})

AfterResearcher(init, r) == init \o init \o <<AIMessage(r)>>

\* C19: each stage returns the full prior list plus its response and the
\* reducer concatenates old and incoming: with n initial messages, messages
\* is initial ++ initial ++ [research response] (length 2n+1) once the
\* researcher is merged, and has length 4n+3 once the writer is merged, every
\* earlier message occurring more than once.
C19_MessagesDoubled ==
  LET n == Len(input.messages) IN
  /\ (ResearcherMerged /\ ~WriterMerged) =>
       /\ state.messages = AfterResearcher(input.messages, responses[1])
       /\ Len(state.messages) = 2 * n + 1
       /\ \A i \in 1..n : Occurrences(input.messages[i], state.messages) > 1
  /\ WriterMerged =>
       LET m1 == AfterResearcher(input.messages, responses[1]) IN
       /\ state.messages = m1 \o m1 \o <<AIMessage(responses[2])>>
       /\ Len(state.messages) = 4 * n + 3
       /\ \A i \in 1..Len(m1) : Occurrences(m1[i], state.messages) > 1

C19_Witness ==
  /\ WriterMerged
  /\ Len(input.messages) = 1
  /\ Len(state.messages) = 7
  /\ responses[1] # responses[2]
  /\ Occurrences(input.messages[1], state.messages) = 4
  /\ Occurrences(AIMessage(responses[1]), state.messages) = 2

====
